---- MODULE Spec2Model ----
(***************************************************************************)
(* Model of src/win32/findfile.c: discovery of the directories in which    *)
(* git and its configuration live on Windows (PATH, registry, templates).  *)
(*                                                                         *)
(* A wide string (wchar_t array) is a sequence of one-character strings;   *)
(* the terminating NUL is implicit at index Len+1.  Buffer indices in the  *)
(* comments are the C (0-based) ones.  "<D800>" stands for a lone UTF-16   *)
(* surrogate, which has no UTF-8 encoding; "<E9>" for U+00E9, which        *)
(* encodes as the two bytes C3 A9.                                         *)
(***************************************************************************)
EXTENDS Integers, Sequences, FiniteSets, TLC

VARIABLES
  env,       \* process environment: PATH and the template variables
  files,     \* the paths for which _waccess(path, F_OK) answers 0
  registry,  \* the two Git_is1 uninstall keys (per-user, machine-wide)
  out,       \* the caller's output git_str: [ptr, oom]
  buf,       \* the git_str handed to a single source (component calls)
  ret,       \* status returned by the last call
  op,        \* the last operation that ran
  subdir,    \* the subdir argument of the last call
  hOpen,     \* registry handles currently open
  opens,     \* keys opened by the last call
  closes,    \* RegCloseKey calls issued by the last call
  cursor,    \* the PATH walker's cursor (index into PATH, 0 = NULL)
  entries,   \* the entries the walker has returned so far
  obs        \* what the last component call touched (indices, sizes)

vars == <<env, files, registry, out, buf, ret, op, subdir, hOpen, opens,
          closes, cursor, entries, obs>>

----------------------------------------------------------------------------
(* Program constants *)

MAX_PATH == 260

GIT_ENOTFOUND == -3

\* capacity, in wide characters, of a git_win32_path
GIT_WIN_PATH_UTF16 == MAX_PATH + 1

sizeof_wchar_t == 2

\* one 16-bit half of a DWORD
WORD_MOD == 65536

GIT_PATH_LIST_SEPARATOR == ";"

NULLPTR == 0

NUL == "NUL"

(* Bounds of the model *)

\* longest PATH value enumerated for the walker
MaxLen == 7

\* size of the destination buffer handed to the walker when it is run alone
WalkBufLen == 9

----------------------------------------------------------------------------
(* Strings *)

Max(a, b) == IF a >= b THEN a ELSE b

\* *(s + i - 1): the character at a 1-based position, NUL at the terminator
At(s, i) == IF i >= 1 /\ i <= Len(s) THEN s[i] ELSE NUL

\* n characters of padding
Pad(n) == [i \in 1..n |-> "x"]

IsSeparator(c) == c = "/" \/ c = "\\"

\* the lowest member of a non-empty set of integers
Lowest(S) == CHOOSE x \in S : \A y \in S : x <= y

\* the member of a one-element set; Only({F(x) : x \in {e}}) is F(e) with e
\* evaluated once
Only(S) == CHOOSE x \in S : TRUE

\* number of two-byte code units among the first k - 1 of src
WideBefore(src, k) == Cardinality({i \in 1..(k - 1) : src[i] = "<E9>"})

\* git_win32_path_to_utf8: fails on a code unit with no UTF-8 encoding;
\* otherwise "<E9>" becomes the bytes C3 A9 and ASCII is copied
git_win32_path_to_utf8(src) ==
  IF \E i \in 1..Len(src) : src[i] = "<D800>"
  THEN [ret |-> -1, utf8 |-> <<>>]
  ELSE IF WideBefore(src, Len(src) + 1) = 0
  THEN [ret |-> Len(src), utf8 |-> src]
  ELSE LET n == Len(src) + WideBefore(src, Len(src) + 1)
           \* the code unit whose encoding covers output byte j
           unit(j) == CHOOSE k \in 1..Len(src) :
                         \/ k + WideBefore(src, k) = j
                         \/ k + WideBefore(src, k) = j - 1 /\ src[k] = "<E9>"
       IN [ret  |-> n,
           utf8 |-> [j \in 1..n |->
                       IF src[unit(j)] # "<E9>" THEN src[unit(j)]
                       ELSE IF unit(j) + WideBefore(src, unit(j)) = j
                            THEN "C3" ELSE "A9"]]

\* git_path_mkposix: every backslash becomes a forward slash
git_path_mkposix(p) == [i \in 1..Len(p) |-> IF p[i] = "\\" THEN "/" ELSE p[i]]

\* Faulty variant of win32_path_to_8: the git_path_mkposix call is left out
win32_path_to_8_NoMkposix(dest, src) ==
  Only({ IF c.ret < 0
         THEN [ret |-> -1, dest |-> dest]
         ELSE [ret |-> 0, dest |-> c.utf8]
         : c \in {git_win32_path_to_utf8(src)} })

\* win32_path_to_8(dest, src): dest is left alone when the conversion fails
win32_path_to_8(dest, src) ==
  Only({ IF c.ret < 0
         THEN [ret |-> -1, dest |-> dest]
         ELSE [ret |-> 0, dest |-> git_path_mkposix(c.utf8)]
         : c \in {git_win32_path_to_utf8(src)} })

----------------------------------------------------------------------------
(* win32_walkpath *)

\* for (buflen--; *path && *path != term && buflen; buflen--) *buf++ = *path++;
\* the position at which the copy stops
WalkCopyEnd(path, start, term, room) ==
  Lowest({j \in start..(Len(path) + 1) :
             At(path, j) = NUL \/ At(path, j) = term \/ j - start = room})

\* while (*path == term || *path == L';') path++;
WalkSkip(path, stop, term) ==
  Lowest({j \in stop..(Len(path) + 1) :
             ~(At(path, j) = term \/ At(path, j) = ";")})

\* buf: the characters copied; next: the new cursor or NULLPTR;
\* top: the highest buffer index written (the terminator's)
win32_walkpath(path, base, buflen) ==
  LET quoted == At(path, base) = "\""
      term   == IF quoted THEN "\"" ELSE ";"
      start  == IF quoted THEN base + 1 ELSE base
  IN Only({ Only({ [buf  |-> SubSeq(path, start, stop - 1),
                    next |-> IF after # base THEN after ELSE NULLPTR,
                    top  |-> stop - start]
                   : after \in {WalkSkip(path, stop, term)} })
            : stop \in {WalkCopyEnd(path, start, term, buflen - 1)} })

----------------------------------------------------------------------------
(* Inputs of the walker when it is run alone *)

WalkAlphabet == {"a", ";", "\""}

RECURSIVE StringsUpTo(_)
StringsUpTo(n) ==
  IF n = 0 THEN {<<>>}
  ELSE LET shorter == StringsUpTo(n - 1)
       IN shorter \cup {Append(s, c) : s \in {t \in shorter : Len(t) = n - 1},
                                       c \in WalkAlphabet}

NoEnv == [def |-> FALSE, val |-> <<>>]

NoKey == [present |-> FALSE, type |-> "REG_SZ", val |-> <<>>]

NoObs == [maxIdx |-> 0, hit |-> FALSE, dir |-> <<>>, exe |-> <<>>,
          hive |-> "none", cbData |-> [hi |-> 0, lo |-> 0], cbExact |-> 0, appended |-> FALSE,
          ub |-> FALSE]

NoRegistry == [user |-> NoKey, machine |-> NoKey]

\* nothing has run yet
Idle ==
  /\ out = [ptr |-> <<>>, oom |-> FALSE]
  /\ buf = <<>>
  /\ ret = 0
  /\ op = "none"
  /\ subdir = <<>>
  /\ hOpen = 0
  /\ opens = 0
  /\ closes = 0
  /\ entries = <<>>
  /\ obs = NoObs

InitWalk ==
  /\ \E p \in StringsUpTo(MaxLen) :
        env = [PATH |-> [def |-> TRUE, val |-> p], vars |-> <<>>]
  /\ files = {}
  /\ registry = NoRegistry
  /\ cursor = 1
  /\ Idle

\* one call of win32_walkpath at the cursor, as its caller's loop makes it
WalkStep ==
  /\ op \in {"none", "walk"}
  /\ cursor # NULLPTR
  /\ \E w \in {win32_walkpath(env.PATH.val, cursor, WalkBufLen)} :
        /\ cursor' = w.next
        /\ entries' = IF w.next = NULLPTR THEN entries ELSE Append(entries, w.buf)
        /\ obs' = [obs EXCEPT !.maxIdx = Max(obs.maxIdx, w.top)]
  /\ op' = "walk"
  /\ UNCHANGED <<env, files, registry, out, buf, ret, subdir, hOpen, opens, closes>>

NextWalk == WalkStep

SpecWalk == InitWalk /\ [][NextWalk]_vars

----------------------------------------------------------------------------
(* Reference: the entries of a PATH value, split on unquoted semicolons *)

\* the positions of the semicolons outside quotes
UnquotedSemis(p) ==
  {i \in 1..Len(p) :
      /\ p[i] = ";"
      /\ Cardinality({k \in 1..(i - 1) : p[k] = "\""}) % 2 = 0}

\* the raw segments between unquoted semicolons, quotes kept
RawSplit(p) ==
  LET semis == UnquotedSemis(p)
      n     == Cardinality(semis)
      at(k) == IF k = 0 THEN 0
               ELSE IF k = n + 1 THEN Len(p) + 1
               ELSE CHOOSE i \in semis : Cardinality({j \in semis : j < i}) = k - 1
  IN [k \in 1..(n + 1) |-> SubSeq(p, at(k - 1) + 1, at(k) - 1)]

IsQuotedSegment(seg) ==
  /\ Len(seg) >= 3
  /\ seg[1] = "\""
  /\ seg[Len(seg)] = "\""
  /\ \A i \in 2..(Len(seg) - 1) : seg[i] # "\""

IsPlainSegment(seg) ==
  /\ Len(seg) >= 1
  /\ \A i \in 1..Len(seg) : seg[i] # "\""

Unquote(seg) == IF IsQuotedSegment(seg) THEN SubSeq(seg, 2, Len(seg) - 1) ELSE seg

NaiveSplit(p) ==
  LET raw == RawSplit(p)
  IN [i \in 1..Len(raw) |-> Unquote(raw[i])]

\* non-empty entries, each wholly quoted or free of quotes, each fitting a
\* destination buffer of buflen characters
WellFormedPath(p, buflen) ==
  LET raw == RawSplit(p)
  IN \A i \in 1..Len(raw) :
        /\ IsQuotedSegment(raw[i]) \/ IsPlainSegment(raw[i])
        /\ Len(Unquote(raw[i])) <= buflen - 1

\* C7: once the walker reports exhaustion on a well-formed PATH value, the
\* entries it returned are exactly those of the split on unquoted semicolons,
\* quotes removed.
C7_WalkerMatchesNaiveSplit ==
  (op = "walk" /\ cursor = NULLPTR /\ WellFormedPath(env.PATH.val, WalkBufLen))
     => entries = NaiveSplit(env.PATH.val)

----------------------------------------------------------------------------
(* win32_find_git_in_path *)

GitExe == <<"g", "i", "t", ".", "e", "x", "e">>

GitCmd == <<"g", "i", "t", ".", "c", "m", "d">>

\* One pass of the while loop on the entry w that win32_walkpath returned.
\* mx carries the highest index of root.path touched so far.  The pass
\* either ends the call (done) or continues at the cursor w.next.  A hit
\* yields the directory in which the executable was found (dir) and the
\* path handed to win32_path_to_8.
FindGitInPathPass(w, gitexe, sub, exist, mx) ==
  IF w.next = NULLPTR \/ w.buf = <<>>
  THEN [done |-> TRUE, ret |-> GIT_ENOTFOUND, hit |-> FALSE, dir |-> <<>>,
        path |-> <<>>, maxIdx |-> Max(mx, w.top)]
  ELSE LET lastch == w.buf[Len(w.buf)]
           slash  == lastch = "/" \/ lastch = "\\"
           len    == IF slash THEN Len(w.buf) ELSE Len(w.buf) + 1
           root   == IF slash THEN w.buf ELSE Append(w.buf, "\\")
       IN IF len + Len(gitexe) >= MAX_PATH
          THEN [done |-> FALSE, ret |-> 0, hit |-> FALSE, dir |-> <<>>,
                path |-> <<>>, maxIdx |-> Max(mx, len)]
          ELSE IF (root \o gitexe) \in exist /\ len > 5
          THEN [done |-> TRUE, ret |-> 0, hit |-> TRUE, dir |-> root,
                path |-> SubSeq(root, 1, len - 4) \o sub,
                maxIdx |-> Max(Max(mx, len + Len(gitexe)), len - 4 + Len(sub))]
          ELSE [done |-> FALSE, ret |-> 0, hit |-> FALSE, dir |-> <<>>,
                path |-> <<>>, maxIdx |-> Max(mx, len + Len(gitexe))]

\* while ((env = win32_walkpath(env, root.path, MAX_PATH-1)) && *root.path)
RECURSIVE FindGitInPathLoop(_, _, _, _, _, _)
FindGitInPathLoop(path, base, gitexe, sub, exist, mx) ==
  Only({ Only({ IF r.done THEN r
                ELSE FindGitInPathLoop(path, w.next, gitexe, sub, exist, r.maxIdx)
                : r \in {FindGitInPathPass(w, gitexe, sub, exist, mx)} })
         : w \in {win32_walkpath(path, base, MAX_PATH - 1)} })

\* b is the caller's git_str; PATH is [def, val]
win32_find_git_in_path(b, PATH, gitexe, sub, exist) ==
  IF ~PATH.def
  THEN [ret |-> -1, buf |-> b, hit |-> FALSE, dir |-> <<>>, maxIdx |-> 0, ub |-> FALSE]
  ELSE Only({ [ret    |-> r.ret,
               buf    |-> IF r.hit THEN win32_path_to_8(b, r.path).dest ELSE b,
               hit    |-> r.hit,
               dir    |-> r.dir,
               maxIdx |-> r.maxIdx,
               ub     |-> r.maxIdx >= GIT_WIN_PATH_UTF16]
              : r \in {FindGitInPathLoop(PATH.val, 1, gitexe, sub, exist, 0)} })

----------------------------------------------------------------------------
(* The locator run alone *)

Semi == <<";">>

GitBinDir == <<"C", ":", "\\", "G", "i", "t", "\\", "b", "i", "n">>

GitCmdDir == <<"C", ":", "\\", "G", "i", "t", "\\", "c", "m", "d">>

MyGitDir == <<"C", ":", "\\", "T", "o", "o", "l", "s", "\\", "m", "y", "g", "i", "t">>

ShortDir == <<"C", ":", "\\", "x">>

QuotedDir == <<"\"", "C", ":", "\\", "a", ";", "b", "\\", "b", "i", "n", "\"">>

EtcSubdir == <<"e", "t", "c", "\\">>

TmplsSubdir == <<"s", "h", "a", "r", "e", "\\", "t", "m", "p", "l", "s", "\\">>

\* a directory of n characters ending in \bin
LongDir(n) == <<"C", ":", "\\">> \o Pad(n - 7) \o <<"\\", "b", "i", "n">>

\* lengths around the locator's MAX_PATH checks
LongLens == (MAX_PATH - 14)..(MAX_PATH + 1)

PathInputs ==
  {GitCmdDir,
   Semi \o GitCmdDir,
   <<"\"", "\"">> \o Semi \o GitCmdDir,
   MyGitDir,
   ShortDir \o Semi \o GitBinDir \o <<"\\">>,
   QuotedDir \o Semi \o GitCmdDir,
   GitBinDir \o Semi \o GitCmdDir}
  \cup {LongDir(n) : n \in LongLens}
  \cup {LongDir(n) \o Semi \o GitCmdDir : n \in LongLens}

EnsureSlash(d) ==
  IF d # <<>> /\ ~IsSeparator(d[Len(d)]) THEN Append(d, "\\") ELSE d

\* the directories named by a PATH value
DirsOf(p) ==
  {EnsureSlash(e) : e \in {NaiveSplit(p)[i] : i \in 1..Len(NaiveSplit(p))} \ {<<>>}}

InitPath ==
  /\ \E p \in PathInputs, exes \in {{GitExe}, {GitCmd}, {GitExe, GitCmd}} :
     \E ds \in SUBSET DirsOf(p) :
        /\ env = [PATH |-> [def |-> TRUE, val |-> p], vars |-> <<>>]
        /\ files = {d \o x : d \in ds, x \in exes}
  /\ registry = NoRegistry
  /\ cursor = 1
  /\ Idle

\* one call win32_find_git_in_path(&buf, gitexe, subdir)
FindGitInPath ==
  /\ ~obs.ub
  /\ \E gitexe \in {GitExe, GitCmd}, sub \in {EtcSubdir, TmplsSubdir} :
    \E r \in {win32_find_git_in_path(buf, env.PATH, gitexe, sub, files)} :
       /\ op' = "path"
       /\ subdir' = sub
       /\ obs' = [NoObs EXCEPT !.maxIdx = r.maxIdx, !.hit = r.hit, !.dir = r.dir,
                               !.exe = gitexe, !.ub = r.ub]
       /\ IF r.ub
          THEN ret' \in {0, -1, GIT_ENOTFOUND} /\ buf' \in {buf, r.buf}
          ELSE ret' = r.ret /\ buf' = r.buf
       /\ UNCHANGED <<env, files, registry, out, hOpen, opens, closes, cursor, entries>>

NextPath == FindGitInPath

SpecPath == InitPath /\ [][NextPath]_vars

\* C5: the locator touches no index of the native path buffer at or past
\* MAX_PATH.
C5_LocatorStaysBelowMaxPath ==
  op = "path" => obs.maxIdx < MAX_PATH

\* the entries of PATH, in order, in which the locator's target would count
\* as found: it exists there, the directory is longer than 5 characters and
\* fits the buffer together with the executable name
QualifyingDirs(p, gitexe, exist) ==
  SelectSeq([i \in 1..Len(NaiveSplit(p)) |-> EnsureSlash(NaiveSplit(p)[i])],
            LAMBDA d : /\ Len(d) > 5
                       /\ Len(d) + Len(gitexe) < MAX_PATH
                       /\ (d \o gitexe) \in exist)

\* C9: whenever some PATH entry qualifies, the locator returns a hit, for
\* the first such entry in PATH order.
C9_LocatorExaminesEveryEntry ==
  (op = "path" /\ env.PATH.def /\ ~obs.ub
      /\ QualifyingDirs(env.PATH.val, obs.exe, files) # <<>>)
     => /\ ret = 0
        /\ obs.hit
        /\ obs.dir = Head(QualifyingDirs(env.PATH.val, obs.exe, files))

\* the last 4 characters of d are one whole path segment and its separator
EndsInThreeCharSegment(d) ==
  /\ Len(d) >= 5
  /\ IsSeparator(d[Len(d)])
  /\ IsSeparator(d[Len(d) - 4])
  /\ \A i \in (Len(d) - 3)..(Len(d) - 1) : ~IsSeparator(d[i])

\* C10: on a hit the 4 characters replaced by subdir were a complete final
\* segment (bin\ or cmd\) of the directory holding the executable, so the
\* result is that directory's parent followed by subdir, normalized.
C10_ReplacedSegmentIsWhole ==
  (op = "path" /\ obs.hit /\ ~obs.ub)
     => /\ EndsInThreeCharSegment(obs.dir)
        /\ LET d == obs.dir
           IN SubSeq(d, Len(d) - 3, Len(d) - 1) \in
                 {<<"b", "i", "n">>, <<"c", "m", "d">>}

----------------------------------------------------------------------------
(* win32_find_git_in_registry *)

\* RegQueryValueExW(hKey, L"InstallLocation", NULL, &dwType, path, &cbData):
\* the bytes of the stored data (a REG_SZ is stored with its terminator) and
\* whether they fit the cbData bytes offered (ERROR_MORE_DATA otherwise)
RegDataBytes(key) ==
  IF key.type = "REG_SZ" THEN (Len(key.val) + 1) * sizeof_wchar_t ELSE 4

\* (DWORD)x, held as its two 16-bit halves
DWORD(x) == [hi |-> (x \div WORD_MOD) % WORD_MOD, lo |-> x % WORD_MOD]

\* the halves of x itself: those of (DWORD)x exactly when x fits a DWORD
Halves(x) == [hi |-> x \div WORD_MOD, lo |-> x % WORD_MOD]

DwordLeq(a, b) == a.hi < b.hi \/ (a.hi = b.hi /\ a.lo <= b.lo)

RegQueryValueExW(key, cbData) == DwordLeq(DWORD(RegDataBytes(key)), cbData)

\* Faulty variant of win32_find_git_in_registry: a failed UTF-8 conversion
\* returns at once, before RegCloseKey
win32_find_git_in_registry_EarlyReturn(b, key, sub) ==
  LET cbExact == GIT_WIN_PATH_UTF16 * sizeof_wchar_t - Len(sub) * sizeof_wchar_t
      cbData  == DWORD(cbExact)
      read    == key.present /\ RegQueryValueExW(key, cbData) /\ key.type = "REG_SZ"
  IN Only({
     [error    |-> IF read /\ conv.ret = 0 THEN 0 ELSE GIT_ENOTFOUND,
      buf      |-> IF read THEN conv.dest ELSE b,
      opened   |-> IF key.present THEN 1 ELSE 0,
      closed   |-> IF key.present /\ ~(read /\ conv.ret < 0) THEN 1 ELSE 0,
      cbExact  |-> IF key.present THEN cbExact ELSE 0,
      cbData   |-> IF key.present THEN cbData ELSE DWORD(0),
      appended |-> read,
      ub       |-> read /\ Len(key.val) + Len(sub) + 1 > GIT_WIN_PATH_UTF16]
     : conv \in {IF read THEN win32_path_to_8(b, key.val \o sub)
                          ELSE [ret |-> -1, dest |-> b]} })

\* b is the caller's git_str; key is the record found under (hive, key):
\* [present, type, val].  cbExact is sizeof(path) - wcslen(subdir) *
\* sizeof(wchar_t) as an integer, cbData what the DWORD holds.
win32_find_git_in_registry(b, key, sub) ==
  LET cbExact == GIT_WIN_PATH_UTF16 * sizeof_wchar_t - Len(sub) * sizeof_wchar_t
      cbData  == DWORD(cbExact)
      read    == key.present /\ RegQueryValueExW(key, cbData) /\ key.type = "REG_SZ"
  IN Only({
     [error    |-> IF read /\ conv.ret = 0 THEN 0 ELSE GIT_ENOTFOUND,
      buf      |-> IF read THEN conv.dest ELSE b,
      opened   |-> IF key.present THEN 1 ELSE 0,
      closed   |-> IF key.present THEN 1 ELSE 0,
      cbExact  |-> IF key.present THEN cbExact ELSE 0,
      cbData   |-> IF key.present THEN cbData ELSE DWORD(0),
      appended |-> read,
      \* wcscat past the end of path
      ub       |-> read /\ Len(key.val) + Len(sub) + 1 > GIT_WIN_PATH_UTF16]
     : conv \in {IF read THEN win32_path_to_8(b, key.val \o sub)
                          ELSE [ret |-> -1, dest |-> b]} })

----------------------------------------------------------------------------
(* The registry reader run alone *)

MingwSubdir == <<"\\", "m", "i", "n", "g", "w", "6", "4", "\\", "s", "h", "a", "r",
                 "e", "\\", "g", "i", "t", "\\">>

GitRoot == <<"C", ":", "\\", "G", "i", "t", "\\">>

OtherRoot == <<"D", ":", "\\", "G", "\\">>

BadRoot == <<"C", ":", "\\", "<D800>", "\\">>

RegSz(v) == [present |-> TRUE, type |-> "REG_SZ", val |-> v]

\* InstallLocation stored with another type
RegDword == [present |-> TRUE, type |-> "REG_DWORD", val |-> <<>>]

\* stored lengths around every capacity check the suffixes below reach
RegLens == 0..2 \cup (GIT_WIN_PATH_UTF16 - 22)..(GIT_WIN_PATH_UTF16 + 1)

RegSubdirs ==
  {<<>>, EtcSubdir, MingwSubdir, Pad(GIT_WIN_PATH_UTF16 - 1),
   Pad(GIT_WIN_PATH_UTF16), Pad(GIT_WIN_PATH_UTF16 + 1)}

InitReg ==
  /\ registry \in [user    : {NoKey, RegDword} \cup {RegSz(Pad(n)) : n \in RegLens},
                   machine : {NoKey, RegSz(OtherRoot)}]
  /\ env = [PATH |-> NoEnv, vars |-> <<>>]
  /\ files = {}
  /\ cursor = 1
  /\ Idle

\* one call win32_find_git_in_registry(&buf, hive, key, subdir)
FindGitInRegistry ==
  /\ ~obs.ub
  /\ \E hive \in {"user", "machine"}, sub \in RegSubdirs :
    \E r \in {win32_find_git_in_registry(buf, registry[hive], sub)} :
       /\ op' = "registry"
       /\ subdir' = sub
       /\ obs' = [NoObs EXCEPT !.hive = hive, !.cbData = r.cbData,
                               !.cbExact = r.cbExact, !.appended = r.appended,
                               !.ub = r.ub]
       /\ opens' = r.opened
       /\ IF r.ub
          THEN /\ ret' \in {0, GIT_ENOTFOUND}
               /\ buf' \in {buf, r.buf}
               /\ closes' \in {0, r.closed}
               /\ hOpen' = hOpen + r.opened - closes'
          ELSE /\ ret' = r.error
               /\ buf' = r.buf
               /\ closes' = r.closed
               /\ hOpen' = hOpen + r.opened - r.closed
       /\ UNCHANGED <<env, files, registry, out, cursor, entries>>

NextReg == FindGitInRegistry

SpecReg == InitReg /\ [][NextReg]_vars

\* C6: for every suffix and stored length, a value of exactly
\* capacity - len(suffix) - 1 characters is returned with the suffix
\* appended, a longer one gives not-found with nothing appended, value plus
\* suffix plus terminator never exceed the capacity, and the byte count
\* handed to the query is the exact difference (no wrap-around).
C6_RegistryCapacityChecks ==
  (op = "registry" /\ registry[obs.hive].present
                   /\ registry[obs.hive].type = "REG_SZ")
     => LET val == registry[obs.hive].val
            cap == GIT_WIN_PATH_UTF16
        IN /\ Len(val) = cap - Len(subdir) - 1
                => ret = 0 /\ buf = git_path_mkposix(val \o subdir)
           /\ Len(val) >= cap - Len(subdir)
                => ret = GIT_ENOTFOUND /\ ~obs.appended
           /\ obs.appended => Len(val) + Len(subdir) + 1 <= cap
           /\ obs.cbData = Halves(obs.cbExact)

----------------------------------------------------------------------------
(* git_str: the growable output string.  ptr is its content; oom is the    *)
(* state a failed allocation leaves it in, which later writes keep.        *)

GIT_STR_INIT == <<>>

OomStr == [ptr |-> <<>>, oom |-> TRUE]

git_str_oom(o) == o.oom

git_str_clear(o) == [o EXCEPT !.ptr = <<>>]

\* fail: the allocation this write needs fails
git_str_set(o, data, fail) ==
  IF o.oom \/ fail THEN OomStr ELSE [ptr |-> data, oom |-> FALSE]

git_str_join(o, sep, a, b, fail) ==
  IF o.oom \/ fail THEN OomStr
  ELSE [ptr |-> IF a = <<>> THEN b ELSE a \o <<sep>> \o b, oom |-> FALSE]

----------------------------------------------------------------------------
(* Template expansion and win32_find_existing_dirs *)

\* ExpandEnvironmentStringsW from position i on: %NAME% becomes the value
\* of a defined variable and is left as it stands otherwise.  ev maps the
\* defined names to their values.
RECURSIVE ExpandEnvironmentStringsW(_, _, _)
ExpandEnvironmentStringsW(t, i, ev) ==
  LET opening == {j \in i..Len(t) : t[j] = "%"}
      a       == Lowest(opening)
      closing == {j \in (a + 1)..Len(t) : t[j] = "%"}
      b       == Lowest(closing)
      name    == SubSeq(t, a + 1, b - 1)
  IN IF i > Len(t) THEN <<>>
     ELSE IF opening = {} THEN SubSeq(t, i, Len(t))
     ELSE IF closing = {} THEN SubSeq(t, i, Len(t))
     ELSE IF name \in DOMAIN ev
     THEN SubSeq(t, i, a - 1) \o ev[name] \o ExpandEnvironmentStringsW(t, b + 1, ev)
     ELSE SubSeq(t, i, b - 1) \o ExpandEnvironmentStringsW(t, b, ev)

\* dest->len counts the terminator; it exceeds the array when the result
\* does not fit
git_win32__expand_path(src, ev) ==
  Only({ IF Len(x) + 1 = 0 \/ Len(x) + 1 > GIT_WIN_PATH_UTF16
         THEN [ret |-> -1, path |-> <<>>]
         ELSE [ret |-> 0, path |-> x]
         : x \in {ExpandEnvironmentStringsW(src, 1, ev)} })

\* One pass of the for loop on template t: st is [out, buf], the output and
\* the local git_str buf; fail: the write to out fails to allocate.
FindExistingDirsPass(st, t, ev, exist, fail) ==
  Only({ IF path16.ret = 0 /\ At(path16.path, 1) # "%" /\ path16.path \in exist
         THEN Only({ [buf |-> b1,
                      out |-> IF Len(b1) # 0
                              THEN git_str_join(st.out, GIT_PATH_LIST_SEPARATOR,
                                                st.out.ptr, b1, fail)
                              ELSE st.out]
                     : b1 \in {win32_path_to_8(st.buf, path16.path).dest} })
         ELSE st
         : path16 \in {git_win32__expand_path(t, ev)} })

\* for (; *tmpl != NULL; tmpl++), from template i on; the write made for
\* template oomAt fails to allocate
RECURSIVE FindExistingDirsLoop(_, _, _, _, _, _)
FindExistingDirsLoop(st, tmpl, i, ev, exist, oomAt) ==
  IF i > Len(tmpl) THEN st
  ELSE Only({ FindExistingDirsLoop(st1, tmpl, i + 1, ev, exist, oomAt)
              : st1 \in {FindExistingDirsPass(st, tmpl[i], ev, exist, oomAt = i)} })

ExistingDirsStatus(o) == IF git_str_oom(o) THEN -1 ELSE 0

win32_find_existing_dirs(o, tmpl, ev, exist, oomAt) ==
  Only({ [out |-> st.out, ret |-> ExistingDirsStatus(st.out)]
         : st \in {FindExistingDirsLoop([out |-> git_str_clear(o), buf |-> GIT_STR_INIT],
                                        tmpl, 1, ev, exist, oomAt)} })

V(name) == <<"%">> \o name \o <<"%">>

HOME == <<"H", "O", "M", "E">>

HOMEDRIVE == <<"H", "O", "M", "E", "D", "R", "I", "V", "E">>

HOMEPATH == <<"H", "O", "M", "E", "P", "A", "T", "H">>

USERPROFILE == <<"U", "S", "E", "R", "P", "R", "O", "F", "I", "L", "E">>

XDG_CONFIG_HOME == <<"X", "D", "G", "_", "C", "O", "N", "F", "I", "G", "_", "H", "O", "M", "E">>

APPDATA == <<"A", "P", "P", "D", "A", "T", "A">>

LOCALAPPDATA == <<"L", "O", "C", "A", "L", "A", "P", "P", "D", "A", "T", "A">>

PROGRAMDATA == <<"P", "R", "O", "G", "R", "A", "M", "D", "A", "T", "A">>

BackslashGit == <<"\\", "g", "i", "t">>

ConfigGit == <<"\\", ".", "c", "o", "n", "f", "i", "g", "\\", "g", "i", "t">>

\* git_win32__find_global_dirs
global_tmpls ==
  <<V(HOME) \o <<"\\">>,
    V(HOMEDRIVE) \o V(HOMEPATH) \o <<"\\">>,
    V(USERPROFILE) \o <<"\\">> >>

\* git_win32__find_xdg_dirs
xdg_tmpls ==
  <<V(XDG_CONFIG_HOME) \o BackslashGit,
    V(APPDATA) \o BackslashGit,
    V(LOCALAPPDATA) \o BackslashGit,
    V(HOME) \o ConfigGit,
    V(HOMEDRIVE) \o V(HOMEPATH) \o ConfigGit,
    V(USERPROFILE) \o ConfigGit>>

\* git_win32__find_programdata_dirs
programdata_tmpls == <<V(PROGRAMDATA) \o <<"\\", "G", "i", "t">> >>

TemplatesOf(o) ==
  CASE o = "global" -> global_tmpls
    [] o = "xdg" -> xdg_tmpls
    [] o = "programdata" -> programdata_tmpls

----------------------------------------------------------------------------
(* git_win32__find_system_dirs *)

\* st is [out, buf, errors, opened, closed, ub]: the output, the local
\* git_str buf and what the sources so far returned and did.

\* lines 172-176: git.exe in PATH sets or clears out
SystemDirsFromExe(o, sub, e, exist, fail) ==
  Only({ [out    |-> IF p.ret = 0 /\ Len(p.buf) # 0
                     THEN git_str_set(o, p.buf, fail)
                     ELSE git_str_clear(o),
          buf    |-> p.buf,
          errors |-> <<p.ret>>,
          opened |-> 0,
          closed |-> 0,
          ub     |-> p.ub]
         : p \in {win32_find_git_in_path(GIT_STR_INIT, e.PATH, GitExe, sub, exist)} })

\* lines 178-179: git.cmd in PATH is joined to out
SystemDirsFromCmd(st, sub, e, exist, fail) ==
  Only({ [out    |-> IF p.ret = 0 /\ Len(p.buf) # 0
                     THEN git_str_join(st.out, GIT_PATH_LIST_SEPARATOR,
                                       st.out.ptr, p.buf, fail)
                     ELSE st.out,
          buf    |-> p.buf,
          errors |-> Append(st.errors, p.ret),
          opened |-> 0,
          closed |-> 0,
          ub     |-> st.ub \/ p.ub]
         : p \in {win32_find_git_in_path(st.buf, e.PATH, GitCmd, sub, exist)} })

\* lines 182-188: a registry record is joined to out
SystemDirsFromRegistry(st, key, sub, fail) ==
  Only({ [out    |-> IF r.error = 0 /\ Len(r.buf) # 0
                     THEN git_str_join(st.out, GIT_PATH_LIST_SEPARATOR,
                                       st.out.ptr, r.buf, fail)
                     ELSE st.out,
          buf    |-> r.buf,
          errors |-> Append(st.errors, r.error),
          opened |-> st.opened + r.opened,
          closed |-> st.closed + r.closed,
          ub     |-> st.ub \/ r.ub]
         : r \in {win32_find_git_in_registry(st.buf, key, sub)} })

\* Faulty variant of SystemDirsStatus: the last source's error is returned
SystemDirsStatusLastError(o, errors) ==
  IF git_str_oom(o) THEN -1 ELSE errors[Len(errors)]

\* return (git_str_oom(out) ? -1 : 0);
SystemDirsStatus(o, errors) == IF git_str_oom(o) THEN -1 ELSE 0

\* The four sources in order.  The write to out made for source oomAt fails
\* to allocate.
git_win32__find_system_dirs(o, sub, e, exist, reg, oomAt) ==
  Only({ [out |-> s4.out, ret |-> SystemDirsStatus(s4.out, s4.errors),
          opened |-> s4.opened, closed |-> s4.closed, ub |-> s4.ub]
         : s4 \in {SystemDirsFromRegistry(s3, reg.machine, sub, oomAt = 4)
                   : s3 \in {SystemDirsFromRegistry(s2, reg.user, sub, oomAt = 3)
                   : s2 \in {SystemDirsFromCmd(s1, sub, e, exist, oomAt = 2)
                   : s1 \in {SystemDirsFromExe(o, sub, e, exist, oomAt = 1)}}}} })

----------------------------------------------------------------------------
(* The four public operations on a live environment *)

BadCmdDir == <<"C", ":", "\\", "<D800>", "\\", "c", "m", "d">>

SysPaths ==
  {NoEnv,
   [def |-> TRUE, val |-> GitBinDir \o Semi \o GitCmdDir],
   [def |-> TRUE, val |-> GitBinDir \o Semi \o BadCmdDir]}

SysFiles ==
  {GitBinDir \o <<"\\">> \o GitExe,
   GitCmdDir \o <<"\\">> \o GitCmd,
   BadCmdDir \o <<"\\">> \o GitCmd}

SysSubdirs == {EtcSubdir, MingwSubdir}

UsualVars ==
  (HOME :> <<"H", ":", "\\", "m", "e">>)
    @@ (HOMEDRIVE :> <<"C", ":">>)
    @@ (HOMEPATH :> <<"\\", "m", "e">>)
    @@ (USERPROFILE :> <<"C", ":", "\\", "u">>)
    @@ (XDG_CONFIG_HOME :> <<"X", ":", "\\", "x">>)
    @@ (APPDATA :> <<"C", ":", "\\", "<E9>">>)
    @@ (LOCALAPPDATA :> <<"C", ":", "\\", "l">>)
    @@ (PROGRAMDATA :> <<"C", ":", "\\", "p", "d">>)

\* the defined variables: none; the usual profile; HOMEDRIVE without
\* HOMEPATH; HOMEPATH without HOMEDRIVE; a profile directory whose name has
\* no UTF-8 encoding
VarChoices ==
  {<<>>,
   UsualVars,
   (HOMEDRIVE :> <<"C", ":">>),
   (HOMEPATH :> <<"\\", "m", "e">>),
   (HOME :> <<"H", ":", "\\", "m", "e">>)
     @@ (USERPROFILE :> <<"C", ":", "\\", "<D800>">>)}

AllTemplates == global_tmpls \o xdg_tmpls \o programdata_tmpls

DirsOfTemplates(tmpl, ev) ==
  {ExpandEnvironmentStringsW(tmpl[i], 1, ev) : i \in 1..Len(tmpl)}

\* which of the probed directories exist: none, all, those of one list
DirChoices(ev) ==
  {{},
   DirsOfTemplates(AllTemplates, ev),
   DirsOfTemplates(global_tmpls, ev),
   DirsOfTemplates(xdg_tmpls, ev)}

PriorOut == <<"o", "l", "d">>

\* PATH, the files on it and the registry vary; the profile is the usual one
InitSystem ==
  /\ \E P \in SysPaths, fs \in SUBSET SysFiles,
        ds \in {{}, DirsOfTemplates(AllTemplates, UsualVars)} :
        /\ env = [PATH |-> P, vars |-> UsualVars]
        /\ files = fs \cup ds
  /\ registry \in [user    : {NoKey, RegDword, RegSz(GitRoot), RegSz(BadRoot)},
                   machine : {NoKey, RegSz(GitRoot), RegSz(OtherRoot)}]

\* the variables and the directories vary; no PATH, no registry record
InitTemplates ==
  /\ \E vs \in VarChoices : \E ds \in DirChoices(vs) :
        /\ env = [PATH |-> NoEnv, vars |-> vs]
        /\ files = ds
  /\ registry = NoRegistry

Init ==
  /\ InitSystem \/ InitTemplates
  /\ out \in {[ptr |-> <<>>, oom |-> FALSE], [ptr |-> PriorOut, oom |-> FALSE]}
  /\ cursor = 1
  /\ Idle

\* Callers hand in a string that is not in the out-of-memory state: after a
\* failed call they dispose of it (Dispose) before using it again.
FindSystemDirs ==
  /\ ~obs.ub
  /\ ~git_str_oom(out)
  /\ \E sub \in SysSubdirs, oomAt \in 0..4 :
       \E r \in {git_win32__find_system_dirs(out, sub, env, files, registry, oomAt)} :
          /\ op' = "system"
          /\ subdir' = sub
          /\ opens' = r.opened
          /\ obs' = [NoObs EXCEPT !.ub = r.ub]
          /\ IF r.ub
             THEN /\ ret' \in {0, -1}
                  /\ out' \in {out, r.out}
                  /\ closes' \in {0, r.closed}
                  /\ hOpen' = hOpen + r.opened - closes'
             ELSE /\ ret' = r.ret
                  /\ out' = r.out
                  /\ closes' = r.closed
                  /\ hOpen' = hOpen + r.opened - r.closed
  /\ UNCHANGED <<env, files, registry, buf, cursor, entries>>

FindTemplateDirs(which) ==
  /\ ~obs.ub
  /\ ~git_str_oom(out)
  /\ \E oomAt \in 0..Len(TemplatesOf(which)) :
       \E r \in {win32_find_existing_dirs(out, TemplatesOf(which), env.vars, files, oomAt)} :
          /\ out' = r.out
          /\ ret' = r.ret
  /\ op' = which
  /\ subdir' = <<>>
  /\ opens' = 0
  /\ closes' = 0
  /\ obs' = NoObs
  /\ UNCHANGED <<env, files, registry, buf, hOpen, cursor, entries>>

\* git_win32__find_global_dirs(out)
FindGlobalDirs == FindTemplateDirs("global")

\* git_win32__find_xdg_dirs(out)
FindXdgDirs == FindTemplateDirs("xdg")

\* git_win32__find_programdata_dirs(out)
FindProgramdataDirs == FindTemplateDirs("programdata")

\* the caller's git_str_dispose(out)
Dispose ==
  /\ ~obs.ub
  /\ out # [ptr |-> <<>>, oom |-> FALSE]
  /\ out' = [ptr |-> <<>>, oom |-> FALSE]
  /\ op' = "dispose"
  /\ UNCHANGED <<env, files, registry, buf, ret, subdir, hOpen, opens, closes,
                 cursor, entries, obs>>

Next ==
  \/ FindSystemDirs
  \/ FindGlobalDirs
  \/ FindXdgDirs
  \/ FindProgramdataDirs
  \/ Dispose

Spec == Init /\ [][Next]_vars

----------------------------------------------------------------------------
(* Properties of the four public operations *)

TemplateOps == {"global", "xdg", "programdata"}

PublicOps == {"system"} \cup TemplateOps

RECURSIVE JoinEntries(_)
JoinEntries(es) ==
  IF es = <<>> THEN <<>>
  ELSE IF Len(es) = 1 THEN es[1]
  ELSE es[1] \o <<GIT_PATH_LIST_SEPARATOR>> \o JoinEntries(Tail(es))

\* what one source yields on its own, from an empty buffer: its normalized
\* result when every step of it succeeded, nothing otherwise
PathSourceEntry(gitexe) ==
  Only({ IF p.ret = 0 /\ p.buf # <<>> THEN <<p.buf>> ELSE <<>>
         : p \in {win32_find_git_in_path(GIT_STR_INIT, env.PATH, gitexe, subdir, files)} })

RegistrySourceEntry(key) ==
  Only({ IF r.error = 0 /\ r.buf # <<>> THEN <<r.buf>> ELSE <<>>
         : r \in {win32_find_git_in_registry(GIT_STR_INIT, key, subdir)} })

TemplateEntry(t) ==
  Only({ IF x.ret = 0 /\ At(x.path, 1) # "%" /\ x.path \in files
            /\ win32_path_to_8(GIT_STR_INIT, x.path).ret = 0
         THEN <<win32_path_to_8(GIT_STR_INIT, x.path).dest>> ELSE <<>>
         : x \in {git_win32__expand_path(t, env.vars)} })

RECURSIVE TemplateEntries(_, _)
TemplateEntries(tmpl, i) ==
  IF i > Len(tmpl) THEN <<>>
  ELSE TemplateEntry(tmpl[i]) \o TemplateEntries(tmpl, i + 1)

ExpectedEntries ==
  IF op = "system"
  THEN PathSourceEntry(GitExe) \o PathSourceEntry(GitCmd)
         \o RegistrySourceEntry(registry.user)
         \o RegistrySourceEntry(registry.machine)
  ELSE TemplateEntries(TemplatesOf(op), 1)

\* C1: on return the output is the separator join, in invocation order, of
\* the normalized results of exactly the sources (templates) that succeeded
\* in this call: a failed source adds nothing and nothing is repeated.
C1_OutputIsJoinOfSucceededSources ==
  (op \in PublicOps /\ ~git_str_oom(out))
     => out.ptr = JoinEntries(ExpectedEntries)

NothingPresent ==
  /\ ~env.PATH.def
  /\ registry = NoRegistry
  /\ files = {}

\* C2: a public operation returns ok unless the output string is in the
\* out-of-memory state, whatever its sources returned; with PATH unset, no
\* registry key and no directory existing it returns ok and an empty list.
C2_StatusIsOkUnlessOom ==
  op \in PublicOps
     => /\ ret = (IF git_str_oom(out) THEN -1 ELSE 0)
        /\ NothingPresent => ret = 0 /\ out = [ptr |-> <<>>, oom |-> FALSE]

\* every source found nothing or failed, and the call returned ok
C2_Witness ==
  /\ op = "system"
  /\ ret = 0
  /\ ~env.PATH.def
  /\ registry.user = RegDword
  /\ registry.machine = NoKey
  /\ out.ptr = <<>>

\* exactly one registry record is present and its InstallLocation is C:\Git\
OneGitRootRecord ==
  \/ registry.user = RegSz(GitRoot) /\ ~registry.machine.present
  \/ ~registry.user.present /\ registry.machine = RegSz(GitRoot)

MingwCase ==
  /\ op = "system"
  /\ subdir = MingwSubdir
  /\ ~git_str_oom(out)
  /\ PathSourceEntry(GitExe) = <<>>
  /\ PathSourceEntry(GitCmd) = <<>>
  /\ OneGitRootRecord

\* C3 as stated: the one entry is C:/Git/mingw64/share/git/
C3_MingwEntryAsStated ==
  MingwCase => out.ptr = <<"C", ":", "/", "G", "i", "t", "/", "m", "i", "n", "g", "w",
                           "6", "4", "/", "s", "h", "a", "r", "e", "/", "g", "i", "t",
                           "/">>

\* C3 amended: the one entry is the registry value followed by the suffix,
\* backslashes rewritten, i.e. C:/Git//mingw64/share/git/ (the value's
\* trailing separator and the suffix's leading one are both kept)
C3_MingwEntryIsValueThenSuffix ==
  MingwCase => out.ptr = <<"C", ":", "/", "G", "i", "t", "/", "/", "m", "i", "n", "g",
                           "w", "6", "4", "/", "s", "h", "a", "r", "e", "/", "g", "i",
                           "t", "/">>

C3_Witness == MingwCase /\ ret = 0 /\ out.ptr # <<>>

\* C4: no entry of a template operation's output contains an unexpanded
\* %VAR% token (no variable's value contains a percent sign here, so any
\* percent sign in the output is an unexpanded token).
C4_NoUnexpandedToken ==
  (op \in TemplateOps /\ ~git_str_oom(out))
     => \A i \in 1..Len(out.ptr) : out.ptr[i] # "%"

PresentKeys ==
  (IF registry.user.present THEN 1 ELSE 0) + (IF registry.machine.present THEN 1 ELSE 0)

\* C8: every key the last call opened it closed exactly once, nothing is
\* closed that was not opened, a system-dirs call opens each present key
\* once, and no handle is open after any sequence of calls.
C8_RegistryKeysClosed ==
  /\ hOpen = 0
  /\ closes = opens
  /\ op = "system" => opens = PresentKeys
  /\ op \in TemplateOps => opens = 0

\* both keys were opened: one value failed its UTF-8 conversion, the other
\* was read and converted
C8_Witness ==
  /\ op = "system"
  /\ registry.user = RegSz(BadRoot)
  /\ registry.machine = RegSz(GitRoot)
  /\ opens = 2
  /\ closes = 2

====
